---------------------------- MODULE Spec2Model ----------------------------
(***************************************************************************)
(* A model of the merge-media repository: overlay_two_images.py (the batch *)
(* compositor: main, process_single_image, download_image,                 *)
(* upload_to_supabase) and modify_text_image.py (the image editor: main,   *)
(* get_image, generate_modification).                                      *)
(*                                                                         *)
(* Six specifications share the module:                                    *)
(*   Spec     one run of overlay_two_images.main over a batch              *)
(*   SpecFit  the aspect-fill step of process_single_image, over all       *)
(*            source sizes and target boxes up to MaxDim                   *)
(*   SpecPix  the pixel pipeline of process_single_image (locate, fit,     *)
(*            canvas, blend) over a bounded family of foregrounds          *)
(*   SpecBlend  one channel of the alpha blend at the two ends of alpha,   *)
(*            over every 8-bit foreground and canvas value                 *)
(*   SpecTwice  overlay_two_images.main run twice on the same input with   *)
(*            the same answers from the network                            *)
(*   SpecModify  one run of modify_text_image.main                         *)
(***************************************************************************)
EXTENDS Integers, Sequences, FiniteSets, TLC

VARIABLES
    pc,             \* control location of main
    token,          \* os.environ.get("SUPABASE_TOKEN")
    file_content,   \* the text of the --input file
    items,          \* main's items after unwrapping
    idx,            \* 1-based position of the loop in items
    results,        \* main's results list
    temp_filepath,  \* main's temp_filepath for the current item
    public_url,     \* what upload_to_supabase returned for the current item
    disk,           \* the temp_*.jpg files that exist
    output,         \* the writes made to the --output file, oldest first
    events,         \* what the run did to the outside world, in order
    uuids,          \* number of uuid.uuid4() values drawn so far
    fit,            \* SpecFit: the aspect-fill inputs and result
    pix,            \* SpecPix: the pixel pipeline's inputs and result
    px,             \* SpecBlend: one channel's inputs and result
    run,            \* SpecTwice: 1 in the first run of main, 2 in the second
    earlier,        \* SpecTwice: how the first run ended and what it did
    mpc,            \* control location of modify_text_image.main
    api_key,        \* os.environ.get("GEMINI_API_KEY")
    downloads,      \* number of requests.get calls made by get_image
    calls,          \* outcome of each client.models.generate_content call
    response,       \* what generate_modification returned to main
    raised,         \* the exception that reached main's except clause
    writes          \* index of the part behind each write to args.output

\* the variables of modify_text_image.main
mtVars == <<mpc, api_key, downloads, calls, response, raised, writes>>

vars == <<pc, token, file_content, items, idx, results, temp_filepath,
          public_url, disk, output, events, uuids, fit, pix, px, run, earlier,
          mtVars>>

mainVars == <<pc, token, file_content, items, idx, results, temp_filepath,
              public_url, disk, output, events, uuids>>

-----------------------------------------------------------------------------
(* Bounds *)

\* the largest value of a uint8 channel, the 255.0 of line 85
ChannelMax == 255

\* longest batch
MaxJobs == 3
\* largest width or height of an ad image or target box in SpecFit
MaxDim == 10
\* width and height of the foreground grid in SpecPix
GridW == 4
GridH == 3

\* Python's None
None == "None"

Max(a, b) == IF a >= b THEN a ELSE b
Min(a, b) == IF a <= b THEN a ELSE b

-----------------------------------------------------------------------------
(* Aspect fill: process_single_image lines 64-80 *)

\* int(p / (q / r)) in IEEE-754 double arithmetic, as line 75 computes it.
\* For p, q, r in 1..12 the double result is floor(p*r/q) except at
\* (9, 9, 7), where 9 / (9/7) rounds to 6.999999999999999 and truncates to 6.
FloatDivShort == {<<9, 9, 7>>}

IntOfDiv(p, q, r) ==
    IF <<p, q, r>> \in FloatDivShort THEN ((p * r) \div q) - 1
                                     ELSE (p * r) \div q

\* int(p * (q / r)) in double arithmetic, as line 69 computes it: for
\* p, q, r in 1..12 it is floor(p*q/r) with no exception.
IntOfMul(p, q, r) == (p * q) \div r

AspectNarrower(adW, adH, w, h) == adW * h < w * adH

\* ad_aspect > box_aspect (line 67): for sizes in 1..12 the comparison of the
\* two doubles agrees with the comparison of the fractions.
AspectWider(adW, adH, w, h) == adW * h > w * adH

\* cv2.resize(src, (nw, nh)): raises on an empty source or an empty size
Resize(sw, sh, nw, nh) ==
    IF sw >= 1 /\ sh >= 1 /\ nw >= 1 /\ nh >= 1
    THEN [ok |-> TRUE, w |-> nw, h |-> nh]
    ELSE [ok |-> FALSE, w |-> 0, h |-> 0]

\* number of elements numpy's a[lo:hi] selects from an axis of length n
SliceStart(i, n) == IF i < 0 THEN Max(i + n, 0) ELSE Min(i, n)
SliceLen(lo, hi, n) == Max(SliceStart(hi, n) - SliceStart(lo, n), 0)

\* The sizes through lines 64-80 for an ad of adW x adH and a box of w x h:
\* the scaled size, the crop offset, the cropped size and the final size.
\* ok is FALSE when one of the cv2.resize calls raises.
Fit(adW, adH, w, h) ==
    LET wider == AspectWider(adW, adH, w, h)
        new_w == IF wider THEN IntOfMul(h, adW, adH) ELSE w
        new_h == IF wider THEN h ELSE IntOfDiv(w, adW, adH)
        resized == Resize(adW, adH, new_w, new_h)
        crop == IF wider THEN (new_w - w) \div 2 ELSE (new_h - h) \div 2
        cw == IF wider THEN SliceLen(crop, crop + w, resized.w) ELSE resized.w
        ch == IF wider THEN resized.h ELSE SliceLen(crop, crop + h, resized.h)
        final == IF resized.ok THEN Resize(cw, ch, w, h)
                              ELSE [ok |-> FALSE, w |-> 0, h |-> 0]
    IN  [ok |-> final.ok, wider |-> wider, new_w |-> new_w, new_h |-> new_h,
         resized_ok |-> resized.ok, crop |-> crop, crop_w |-> cw, crop_h |-> ch,
         w |-> final.w, h |-> final.h]

-----------------------------------------------------------------------------
(* Images: what cv2.imdecode(..., IMREAD_UNCHANGED) returns *)

\* A decoded image is [w, h, ch, rgb, alpha]: ch is the channel count (4 with
\* an alpha channel, 3 without, 1 for a grayscale file, which decodes to a
\* two-dimensional array), rgb maps each pixel <<x, y>> to its <<b, g, r>>
\* and alpha maps it to its alpha sample (255 where ch is not 4).
Pixels(w, h) == (0 .. w - 1) \X (0 .. h - 1)

Image(w, h, ch, rgb, alpha) ==
    [w |-> w, h |-> h, ch |-> ch, rgb |-> rgb, alpha |-> alpha]

Solid(w, h, ch, colour, a) ==
    Image(w, h, ch, [p \in Pixels(w, h) |-> colour], [p \in Pixels(w, h) |-> a])

Black == <<0, 0, 0>>

-----------------------------------------------------------------------------
(* Region locator: process_single_image lines 53-62 *)

\* transparent_mask (line 54): the pixels with alpha < 255
TransparentMask(img) == {p \in Pixels(img.w, img.h) : img.alpha[p] < 255}

Nbrs8(p) ==
    {<<p[1] + d[1], p[2] + d[2]>> : d \in (-1 .. 1) \X (-1 .. 1)} \ {p}

Nbrs4(p) ==
    {<<p[1] - 1, p[2]>>, <<p[1] + 1, p[2]>>, <<p[1], p[2] - 1>>, <<p[1], p[2] + 1>>}

\* the pixels of region reached from front through 8-neighbours (seen holds
\* those reached before)
RECURSIVE Grow8(_, _, _)
Grow8(front, seen, region) ==
    LET N == (UNION {Nbrs8(p) : p \in front} \cap region) \ seen
    IN  IF N = {} THEN seen ELSE Grow8(N, seen \cup N, region)

\* the same through 4-neighbours
RECURSIVE Grow4(_, _, _)
Grow4(front, seen, region) ==
    LET N == (UNION {Nbrs4(p) : p \in front} \cap region) \ seen
    IN  IF N = {} THEN seen ELSE Grow4(N, seen \cup N, region)

\* the 8-connected components of the mask
Components(mask) == {Grow8({p}, {p}, mask) : p \in mask}

\* A component with its holes filled: what its outer border encloses. The
\* background is 4-connected; it is followed from outside the image.
Filled(comp, w, h) ==
    LET padded == (-1 .. w) \X (-1 .. h)
        outside == Grow4({<<-1, -1>>}, {<<-1, -1>>}, padded \ comp)
    IN  padded \ outside

\* cv2.findContours(mask, RETR_EXTERNAL, CHAIN_APPROX_SIMPLE) (line 55): one
\* outer border per component that is not enclosed by another component.
\* A contour is represented by the component it borders.
FindContours(mask, w, h) ==
    LET comps == Components(mask)
        filled == [d \in comps |-> Filled(d, w, h)]
    IN  {c \in comps : \A d \in comps \ {c} : ~(c \subseteq filled[d])}

\* Twice cv2.contourArea of a component's outer border (line 61). The border
\* runs through the centres of the component's outermost pixels, cutting
\* corners diagonally (8-connectivity), so the polygon it encloses covers
\* each 2x2 block of enclosed pixels fully and each block with exactly three
\* enclosed pixels by half; a single pixel and a one-pixel-wide line have
\* area 0.
ContourArea2(comp, w, h) ==
    LET f == Filled(comp, w, h)
        cells == (0 .. w - 2) \X (0 .. h - 2)
        inCell == [c \in cells |->
                      Cardinality({p \in {c, <<c[1] + 1, c[2]>>, <<c[1], c[2] + 1>>,
                                             <<c[1] + 1, c[2] + 1>>} : p \in f})]
    IN  2 * Cardinality({c \in cells : inCell[c] = 4})
          + Cardinality({c \in cells : inCell[c] = 3})

\* max(contours, key=cv2.contourArea) (line 61): Python's max keeps the first
\* maximal element and the order of findContours' list is not documented, so
\* each contour of maximal area is a possible result.
LargestContours(mask, w, h) ==
    LET cs == FindContours(mask, w, h)
        area2 == [c \in cs |-> ContourArea2(c, w, h)]
    IN  {c \in cs : \A d \in cs : area2[d] <= area2[c]}

SetMin(S) == CHOOSE m \in S : \A n \in S : m <= n
SetMax(S) == CHOOSE m \in S : \A n \in S : m >= n

BoundingRectExclusive(comp) ==
    LET xs == {p[1] : p \in comp}
        ys == {p[2] : p \in comp}
    IN  [x |-> SetMin(xs), y |-> SetMin(ys),
         w |-> SetMax(xs) - SetMin(xs), h |-> SetMax(ys) - SetMin(ys)]

\* cv2.boundingRect (line 62)
BoundingRect(comp) ==
    LET xs == {p[1] : p \in comp}
        ys == {p[2] : p \in comp}
    IN  [x |-> SetMin(xs), y |-> SetMin(ys),
         w |-> SetMax(xs) - SetMin(xs) + 1, h |-> SetMax(ys) - SetMin(ys) + 1]

InBox(p, box) ==
    /\ box.x <= p[1] /\ p[1] < box.x + box.w
    /\ box.y <= p[2] /\ p[2] < box.y + box.h

-----------------------------------------------------------------------------
(* Canvas and alpha blend: process_single_image lines 82-91 *)

\* int(f * (a / 255.0) + g * (1 - a / 255.0)) in double arithmetic, one
\* channel of line 91 (astype(np.uint8) truncates). For the samples the model
\* uses (f, g in {0, 3, 200, 255}, a in {0, 5, 128, 255}) the double result is
\* floor((f*a + g*(255 - a)) / 255) except at the two entries of
\* FloatBlendShort, where the sum falls just below the integer. At a = 0 and
\* a = 255 the weights are exactly 0.0 and 1.0, so the double result is g
\* and f for every f and g in 0 .. 255.
FloatBlendShort == {<<3, 5, 3>>, <<200, 5, 200>>}

BlendBy256(f, a, g) == (f * a + g * (256 - a)) \div 256

BlendSwapped(f, a, g) == (g * a + f * (255 - a)) \div 255

Blend(f, a, g) ==
    IF <<f, a, g>> \in FloatBlendShort
    THEN ((f * a + g * (255 - a)) \div 255) - 1
    ELSE (f * a + g * (255 - a)) \div 255

\* colour of the ad after line 47 drops a fourth channel and lines 70-80
\* resize it: the model's ads are of one colour, which resizing keeps
AdColour(ad_img) == ad_img.rgb[<<0, 0>>]

\* canvas (lines 82-83): black, with the fitted ad pasted over the box
Canvas(overlay_img, ad_img, box) ==
    [p \in Pixels(overlay_img.w, overlay_img.h) |->
        IF InBox(p, box) THEN AdColour(ad_img) ELSE Black]

\* result (lines 85-91)
Composite(overlay_img, canvas) ==
    [p \in Pixels(overlay_img.w, overlay_img.h) |->
        [i \in 1 .. 3 |->
            Blend(overlay_img.rgb[p][i], overlay_img.alpha[p], canvas[p][i])]]

-----------------------------------------------------------------------------
(* The outside world of a run: the web, the input file, the jobs *)

\* What requests.get(url) meets: status is the HTTP status, or "raise" when
\* requests raises (ConnectionError on a network-level failure, as for
\* "down"; MissingSchema on anything that is no URL); decodes tells
\* whether cv2.imdecode can decode the body (it returns None if not); body
\* is the image the bytes decode to.
Response(status, decodes, body) ==
    [status |-> status, decodes |-> decodes, body |-> body]

NoImage == Solid(1, 1, 1, Black, 255)

FgHole ==
    Image(3, 3, 4, [p \in Pixels(3, 3) |-> <<200, 3, 255>>],
          [p \in Pixels(3, 3) |-> IF p = <<1, 1>> THEN 0 ELSE 255])

FgTwo ==
    Image(4, 3, 4, [p \in Pixels(4, 3) |-> <<200, 3, 255>>],
          [p \in Pixels(4, 3) |->
              IF p[1] <= 1 /\ p[2] <= 1 THEN 0
              ELSE IF p = <<3, 2>> THEN 128 ELSE 255])

Web(url) ==
    CASE url = "fg_hole"   -> Response("200", TRUE, FgHole)
      [] url = "fg_two"    -> Response("200", TRUE, FgTwo)
      [] url = "fg_opaque" -> Response("200", TRUE, Solid(3, 3, 4, <<200, 3, 255>>, 255))
      [] url = "fg_rgb"    -> Response("200", TRUE, Solid(3, 3, 3, <<200, 3, 255>>, 255))
      [] url = "fg_gray"   -> Response("200", TRUE, Solid(3, 3, 1, <<3, 3, 3>>, 255))
      [] url = "ad_red"    -> Response("200", TRUE, Solid(4, 1, 3, <<0, 0, 255>>, 255))
      [] url = "ad_rgba"   -> Response("200", TRUE, Solid(1, 3, 4, <<0, 0, 255>>, 128))
      [] url = "notimage"  -> Response("200", FALSE, NoImage)
      [] url = "gone"      -> Response("404", FALSE, NoImage)
      [] url = "down"      -> Response("raise", FALSE, NoImage)
      [] OTHER             -> Response("raise", FALSE, NoImage)

\* A job is a Python dict: a function from the keys it has to their values.
\* JSON null is None.
JobPool ==
    { [fg_image |-> "fg_hole", ad_image |-> "ad_red",
       meta_ad_creative_id |-> "c1", name |-> "a"],
      [fg_image |-> "fg_two", ad_image |-> "ad_rgba", name |-> "b"],
      [fg_image |-> "fg_hole", ad_image |-> "ad_red",
       meta_ad_creative_id |-> None],
      [ad_image |-> "ad_red", name |-> "nofg"],
      [fg_image |-> "fg_hole", ad_image |-> ""],
      [fg_image |-> None, ad_image |-> "ad_red"],
      [fg_image |-> "fg_rgb", ad_image |-> "ad_red"],
      [fg_image |-> "fg_opaque", ad_image |-> "ad_red"],
      [fg_image |-> "gone", ad_image |-> "ad_red"],
      [fg_image |-> "fg_hole", ad_image |-> "notimage"],
      [fg_image |-> "fg_hole", ad_image |-> "down"],
      [fg_image |-> "fg_gray", ad_image |-> "ad_red"] }

Batches == UNION {[1 .. n -> JobPool] : n \in 0 .. MaxJobs}

\* JSON values and JSON texts, as tagged tuples. A text is <<"text", v>>, the
\* serialisation of the value v, or <<"garbage">>, which is not JSON. A value
\* is a list <<"list", S>>, an object with the key images_json
\* <<"dict", v>>, an object without it <<"dict0">>, a string <<"str", text>>
\* holding a text, or <<"null">>.
Text(v) == <<"text", v>>
Garbage == <<"garbage">>
List(S) == <<"list", S>>
Wrapped(v) == <<"dict", v>>
Str(text) == <<"str", text>>

\* the ways one batch S reaches the input file
Plain(S) == Text(List(S))
InWrapper(S) == Text(Wrapped(List(S)))
AsString(S) == Text(Str(Text(List(S))))
StringInWrapper(S) == Text(Wrapped(Str(Text(List(S)))))
WrapperInString(S) == Text(Str(Text(Wrapped(List(S)))))
StringInString(S) == Text(Str(Text(Str(Text(List(S))))))

Malformed ==
    { Garbage, Text(<<"dict0">>), Text(<<"null">>), Text(Str(Garbage)),
      Text(Wrapped(<<"null">>)), Text(Wrapped(Str(Garbage))) }

ShortBatches == {S \in Batches : Len(S) <= 1}

Inputs ==
    {Plain(S) : S \in Batches}
      \cup {InWrapper(S) : S \in ShortBatches}
      \cup {AsString(S) : S \in ShortBatches}
      \cup {StringInWrapper(S) : S \in ShortBatches}
      \cup {WrapperInString(S) : S \in ShortBatches}
      \cup {StringInString(S) : S \in ShortBatches}
      \cup Malformed

Tokens == {None, "", "secret"}

-----------------------------------------------------------------------------
(* Input unwrapping: main lines 107-127 *)

\* json.loads(text): the value, or a raised JSONDecodeError
Loads(text) ==
    IF text[1] = "text" THEN [ok |-> TRUE, v |-> text[2]]
                        ELSE [ok |-> FALSE, v |-> <<"null">>]

UnwrapStringFirst(content) ==
    LET first == Loads(content)
        second == IF first.ok /\ first.v[1] = "str" THEN Loads(first.v[2])
                  ELSE first
        unpacked == IF second.ok /\ second.v[1] = "dict" THEN second.v[2]
                    ELSE second.v
    IN  IF ~second.ok THEN [ok |-> FALSE, items |-> <<>>]
        ELSE IF unpacked[1] # "list" THEN [ok |-> FALSE, items |-> <<>>]
        ELSE [ok |-> TRUE, items |-> unpacked[2]]

\* ok with the list, or not ok: the run prints the error and calls sys.exit(1)
Unwrap(content) ==
    LET first == Loads(content)
        unpacked == IF first.ok /\ first.v[1] = "dict" THEN first.v[2]
                    ELSE first.v
        second == IF first.ok /\ unpacked[1] = "str" THEN Loads(unpacked[2])
                  ELSE [ok |-> first.ok, v |-> unpacked]
    IN  IF ~second.ok THEN [ok |-> FALSE, items |-> <<>>]
        ELSE IF second.v[1] # "list" THEN [ok |-> FALSE, items |-> <<>>]
        ELSE [ok |-> TRUE, items |-> second.v[2]]

-----------------------------------------------------------------------------
(* download_image and process_single_image *)

\* download_image(url) (lines 13-20): got is "img" with the decoded image,
\* "none" when it returns None, "raise" when requests.get raises
DownloadImage(url) ==
    LET r == Web(url)
    IN  IF r.status = "raise" THEN [got |-> "raise", img |-> NoImage]
        ELSE IF r.status = "200" /\ r.decodes THEN [got |-> "img", img |-> r.body]
        ELSE [got |-> "none", img |-> NoImage]

Outcome(ret, gets, wrote) == [ret |-> ret, gets |-> gets, wrote |-> wrote]

\* The possible outcomes of process_single_image(fg_url, ad_url, output_path)
\* (lines 37-94): ret is "True", "False" or "raise" (an exception leaves the
\* function), gets the URLs it requested in order, wrote whether cv2.imwrite
\* ran. More than one outcome only if the choice among largest contours
\* decides whether cv2.resize raises.
ProcessSingleImage(fg_url, ad_url) ==
    LET fgd == DownloadImage(fg_url)
        add == DownloadImage(ad_url)
        overlay_img == fgd.img
        ad_img == add.img
    IN  IF fgd.got = "raise" THEN {Outcome("raise", <<fg_url>>, FALSE)}
        ELSE IF fgd.got = "none" THEN {Outcome("False", <<fg_url>>, FALSE)}
        ELSE IF add.got = "raise" THEN {Outcome("raise", <<fg_url, ad_url>>, FALSE)}
        ELSE IF add.got = "none" THEN {Outcome("False", <<fg_url, ad_url>>, FALSE)}
        ELSE IF ad_img.ch = 1 THEN {Outcome("raise", <<fg_url, ad_url>>, FALSE)}
        ELSE IF overlay_img.ch = 1 THEN {Outcome("raise", <<fg_url, ad_url>>, FALSE)}
        ELSE IF overlay_img.ch # 4 THEN {Outcome("False", <<fg_url, ad_url>>, FALSE)}
        ELSE LET mask == TransparentMask(overlay_img)
                 largest == LargestContours(mask, overlay_img.w, overlay_img.h)
             IN  IF mask = {} THEN {Outcome("False", <<fg_url, ad_url>>, FALSE)}
                 ELSE { IF Fit(ad_img.w, ad_img.h, BoundingRect(c).w, BoundingRect(c).h).ok
                        THEN Outcome("True", <<fg_url, ad_url>>, TRUE)
                        ELSE Outcome("raise", <<fg_url, ad_url>>, FALSE)
                        : c \in largest }

-----------------------------------------------------------------------------
(* main: lines 96-165 *)

\* dict operations
Has(item, k) == k \in DOMAIN item
Get(item, k) == IF Has(item, k) THEN item[k] ELSE None
With(item, k, v) ==
    [x \in DOMAIN item \cup {k} |-> IF x = k THEN v ELSE item[x]]

\* "not v" for the values a URL field takes
Falsy(v) == v = None \/ v = ""

\* uuid.uuid4() is taken to return a value it never returned before; the
\* n-th value drawn names temp_<n>.jpg (line 140) or overlay_<n>.jpg (line 145)
TempName(n) == <<"temp", n>>
OverlayName(n) == <<"overlay", n>>
PublicUrl(filename) == <<"public", filename>>
NoUrl == <<"None">>
NoFile == <<"none", 0>>

\* filename (line 145): made from the uuid drawn last
Filename == OverlayName(uuids)

Event(op, i, arg) == <<op, i, arg>>

\* status codes the storage service answers an upload with, besides the
\* request raising
UploadStatuses == {"200", "201", "403"}

\* What the storage service may answer the upload of job i with. In a first
\* run it is any status or a raised exception; in the second run of SpecTwice
\* the service is a deterministic stub, answering as it did in the first run.
StubAnswers(i) ==
    IF run = 1 THEN UploadStatuses \cup {"raise"}
    ELSE {earlier.events[n][3][2] :
             n \in {m \in 1 .. Len(earlier.events) :
                       earlier.events[m][1] = "post" /\ earlier.events[m][2] = i}}

IdleFit == [phase |-> "idle", adW |-> 0, adH |-> 0, w |-> 0, h |-> 0,
            out |-> Fit(1, 1, 1, 1)]
IdlePix == [phase |-> "idle"]
IdlePx == [phase |-> "idle", f |-> 0, a |-> 0, g |-> 0, out |-> 0]
NoEarlier == [pc |-> "none", output |-> <<>>, events |-> <<>>]
NoResponse == [tag |-> "none", candidates |-> <<>>]
NoError == [kind |-> "none", attempt |-> 0]

\* modify_text_image.main has not been started
IdleModify ==
    /\ mpc = "idle"
    /\ api_key = None
    /\ downloads = 0
    /\ calls = <<>>
    /\ response = NoResponse
    /\ raised = NoError
    /\ writes = <<>>

Init ==
    /\ pc = "start"
    /\ token \in Tokens
    /\ file_content \in Inputs
    /\ items = <<>>
    /\ idx = 0
    /\ results = <<>>
    /\ temp_filepath = NoFile
    /\ public_url = NoUrl
    /\ disk = {}
    /\ output = <<>>
    /\ events = <<>>
    /\ uuids = 0
    /\ fit = IdleFit
    /\ pix = IdlePix
    /\ px = IdlePx
    /\ run = 1
    /\ earlier = NoEarlier
    /\ IdleModify

CheckTokenLate ==
    /\ pc = "start"
    /\ pc' = "parse"
    /\ UNCHANGED <<token, file_content, items, idx, results, temp_filepath,
                   public_url, disk, output, events, uuids, fit, pix, px, run,
                   earlier, mtVars>>

\* lines 102-105
CheckToken ==
    /\ pc = "start"
    /\ pc' = IF Falsy(token) THEN "exit1" ELSE "parse"
    /\ UNCHANGED <<token, file_content, items, idx, results, temp_filepath,
                   public_url, disk, output, events, uuids, fit, pix, px, run,
                   earlier, mtVars>>

\* lines 107-129
ParseInput ==
    /\ pc = "parse"
    /\ LET u == Unwrap(file_content)
       IN  /\ pc' = IF u.ok THEN "loop" ELSE "exit1"
           /\ items' = u.items
           /\ idx' = IF u.ok THEN 1 ELSE idx
    /\ events' = Append(events, Event("read_input", 0, ""))
    /\ UNCHANGED <<token, file_content, results, temp_filepath, public_url,
                   disk, output, uuids, fit, pix, px, run,
                   earlier, mtVars>>

MissingKey(item) == ~Has(item, "fg_image") \/ ~Has(item, "ad_image")

\* the condition of line 136
MissingField(item) ==
    Falsy(Get(item, "fg_image")) \/ Falsy(Get(item, "ad_image"))

\* lines 131-140: the next item is validated, then skipped or given a
\* temp_filepath
LoopStep ==
    /\ pc = "loop"
    /\ idx <= Len(items)
    /\ IF MissingField(items[idx])
       THEN /\ idx' = idx + 1
            /\ events' = Append(events, Event("skip", idx, ""))
            /\ UNCHANGED <<pc, temp_filepath, uuids>>
       ELSE /\ pc' = "process"
            /\ temp_filepath' = TempName(uuids + 1)
            /\ uuids' = uuids + 1
            /\ UNCHANGED <<idx, events>>
    /\ UNCHANGED <<token, file_content, items, results, public_url, disk,
                   output, fit, pix, px, run,
                   earlier, mtVars>>

GetEvents(i, gets) == [n \in 1 .. Len(gets) |-> Event("get", i, gets[n])]

\* lines 142-145 and 159-160: process_single_image runs; on success the
\* upload's filename is drawn
ProcessItem ==
    /\ pc = "process"
    /\ \E o \in ProcessSingleImage(items[idx].fg_image, items[idx].ad_image) :
        /\ events' = events \o GetEvents(idx, o.gets)
                       \o (IF o.wrote THEN <<Event("imwrite", idx, temp_filepath)>>
                                      ELSE <<>>)
        /\ disk' = IF o.wrote THEN disk \cup {temp_filepath} ELSE disk
        /\ pc' = CASE o.ret = "True" -> "upload"
                   [] o.ret = "False" -> "loop"
                   [] o.ret = "raise" -> "crash"
        /\ uuids' = IF o.ret = "True" THEN uuids + 1 ELSE uuids
        /\ idx' = IF o.ret = "False" THEN idx + 1 ELSE idx
    /\ UNCHANGED <<token, file_content, items, results, temp_filepath,
                   public_url, output, fit, pix, px, run,
                   earlier, mtVars>>

\* line 147 and upload_to_supabase (lines 22-35): open() raises if the file
\* is not there; requests.post raises or answers with a status
Upload ==
    /\ pc = "upload"
    /\ \E status \in StubAnswers(idx) :
        IF temp_filepath \notin disk
        THEN /\ pc' = "crash"
             /\ UNCHANGED <<public_url, events>>
        ELSE /\ events' = Append(events, Event("post", idx, <<Filename, status>>))
             /\ pc' = IF status = "raise" THEN "crash" ELSE "record"
             /\ public_url' = IF status \in {"200", "201"} THEN PublicUrl(Filename)
                              ELSE NoUrl
    /\ UNCHANGED <<token, file_content, items, idx, results, temp_filepath,
                   disk, output, uuids, fit, pix, px, run,
                   earlier, mtVars>>

RecordedNoDefault(item, url) == With(item, "final_image", url)

\* lines 150-152: the item, mutated in place
Recorded(item, url) ==
    LET withUrl == With(item, "final_image", url)
    IN  IF Has(withUrl, "meta_ad_creative_id") THEN withUrl
        ELSE With(withUrl, "meta_ad_creative_id", None)

RecordAlways ==
    /\ pc = "record"
    /\ items' = [items EXCEPT ![idx] = With(items[idx], "final_image", public_url)]
    /\ results' = Append(results, With(items[idx], "final_image", public_url))
    /\ pc' = "cleanup"
    /\ UNCHANGED <<token, file_content, idx, temp_filepath, public_url, disk,
                   output, events, uuids, fit, pix, px, run,
                   earlier, mtVars>>

\* lines 149-155
Record ==
    /\ pc = "record"
    /\ IF public_url # NoUrl
       THEN /\ items' = [items EXCEPT ![idx] = Recorded(items[idx], public_url)]
            /\ results' = Append(results, Recorded(items[idx], public_url))
       ELSE UNCHANGED <<items, results>>
    /\ pc' = "cleanup"
    /\ UNCHANGED <<token, file_content, idx, temp_filepath, public_url, disk,
                   output, events, uuids, fit, pix, px, run,
                   earlier, mtVars>>

CleanupKeepsFile ==
    /\ pc = "cleanup"
    /\ idx' = idx + 1
    /\ pc' = "loop"
    /\ UNCHANGED <<token, file_content, items, results, temp_filepath,
                   public_url, disk, output, events, uuids, fit, pix, px, run,
                   earlier, mtVars>>

\* lines 157-158
Cleanup ==
    /\ pc = "cleanup"
    /\ IF temp_filepath \in disk
       THEN /\ disk' = disk \ {temp_filepath}
            /\ events' = Append(events, Event("remove", idx, temp_filepath))
       ELSE UNCHANGED <<disk, events>>
    /\ idx' = idx + 1
    /\ pc' = "loop"
    /\ UNCHANGED <<token, file_content, items, results, temp_filepath,
                   public_url, output, uuids, fit, pix, px, run,
                   earlier, mtVars>>

WriteOutputAppend ==
    /\ pc = "loop"
    /\ idx > Len(items)
    /\ output' = Append(output, (IF output = <<>> THEN <<>> ELSE output[Len(output)])
                                    \o results)
    /\ pc' = "done"
    /\ UNCHANGED <<token, file_content, items, idx, results, temp_filepath,
                   public_url, disk, events, uuids, fit, pix, px, run,
                   earlier, mtVars>>

\* lines 162-165
WriteOutput ==
    /\ pc = "loop"
    /\ idx > Len(items)
    /\ output' = Append(output, results)
    /\ pc' = "done"
    /\ UNCHANGED <<token, file_content, items, idx, results, temp_filepath,
                   public_url, disk, events, uuids, fit, pix, px, run,
                   earlier, mtVars>>

Next ==
    \/ CheckToken
    \/ ParseInput
    \/ LoopStep
    \/ ProcessItem
    \/ Upload
    \/ Record
    \/ Cleanup
    \/ WriteOutput

Spec == Init /\ [][Next]_vars

\* the process's exit status once it has ended: sys.exit(1) and an uncaught
\* exception both end it with status 1
Ended == pc \in {"done", "exit1", "crash"}
ExitStatus == IF pc = "done" THEN 0 ELSE 1

-----------------------------------------------------------------------------
(* SpecTwice: main run a second time on the same input *)

\* The process is started again after it ended: the environment variable and
\* the input file are as before, files left on disk are still there, the
\* output file keeps what was written to it, uuid4 goes on returning fresh
\* values, and main's own variables start afresh (lines 96-129). What the
\* first run did is kept in earlier.
Rerun ==
    /\ run = 1
    /\ Ended
    /\ run' = 2
    /\ earlier' = [pc |-> pc, output |-> output, events |-> events]
    /\ pc' = "start"
    /\ items' = <<>>
    /\ idx' = 0
    /\ results' = <<>>
    /\ temp_filepath' = NoFile
    /\ public_url' = NoUrl
    /\ events' = <<>>
    /\ UNCHANGED <<token, file_content, disk, output, uuids, fit, pix, px,
                   mtVars>>

\* jobs for the two runs: two that succeed, one skipped at validation, one
\* whose foreground has no alpha channel, one whose foreground is not found
\* and one whose ad fetch raises
TwicePool ==
    { [fg_image |-> "fg_hole", ad_image |-> "ad_red",
       meta_ad_creative_id |-> "c1", name |-> "a"],
      [fg_image |-> "fg_two", ad_image |-> "ad_rgba", name |-> "b"],
      [ad_image |-> "ad_red", name |-> "nofg"],
      [fg_image |-> "fg_rgb", ad_image |-> "ad_red"],
      [fg_image |-> "gone", ad_image |-> "ad_red"],
      [fg_image |-> "fg_hole", ad_image |-> "down"] }

TwiceInputs ==
    {Plain(S) : S \in UNION {[1 .. n -> TwicePool] : n \in 0 .. MaxJobs}}
      \cup {StringInWrapper(S) : S \in UNION {[1 .. n -> TwicePool] : n \in 0 .. 1}}
      \cup Malformed

InitTwice ==
    /\ pc = "start"
    /\ token \in Tokens
    /\ file_content \in TwiceInputs
    /\ items = <<>>
    /\ idx = 0
    /\ results = <<>>
    /\ temp_filepath = NoFile
    /\ public_url = NoUrl
    /\ disk = {}
    /\ output = <<>>
    /\ events = <<>>
    /\ uuids = 0
    /\ fit = IdleFit
    /\ pix = IdlePix
    /\ px = IdlePx
    /\ run = 1
    /\ earlier = NoEarlier
    /\ IdleModify

NextTwice == Next \/ Rerun

SpecTwice == InitTwice /\ [][NextTwice]_vars

-----------------------------------------------------------------------------
(* SpecFit: the aspect-fill step on every ad size and box up to MaxDim *)

Dims == 1 .. MaxDim

InitFit ==
    /\ pc = "fit"
    /\ token = None
    /\ file_content = Garbage
    /\ items = <<>>
    /\ idx = 0
    /\ results = <<>>
    /\ temp_filepath = NoFile
    /\ public_url = NoUrl
    /\ disk = {}
    /\ output = <<>>
    /\ events = <<>>
    /\ uuids = 0
    /\ \E adW \in Dims, adH \in Dims, w \in Dims, h \in Dims :
           fit = [phase |-> "in", adW |-> adW, adH |-> adH, w |-> w, h |-> h,
                  out |-> Fit(1, 1, 1, 1)]
    /\ pix = IdlePix
    /\ px = IdlePx
    /\ run = 1
    /\ earlier = NoEarlier
    /\ IdleModify

\* lines 64-80 on an ad of fit.adW x fit.adH and a box of fit.w x fit.h
AspectFill ==
    /\ fit.phase = "in"
    /\ fit' = [fit EXCEPT !.phase = "out",
                          !.out = Fit(fit.adW, fit.adH, fit.w, fit.h)]
    /\ UNCHANGED <<mainVars, pix, px, run, earlier, mtVars>>

NextFit == AspectFill

SpecFit == InitFit /\ [][NextFit]_vars

-----------------------------------------------------------------------------
(* SpecPix: the pixel pipeline on a bounded family of foregrounds *)

\* alpha samples of the non-opaque pixels
HoleAlphas == {0, 5, 128}

\* rectangles of the grid, as the sets of their pixels; {} is no rectangle
Rects(w, h) ==
    {{p \in Pixels(w, h) : r[1] <= p[1] /\ p[1] <= r[2] /\ r[3] <= p[2] /\ p[2] <= r[4]} :
        r \in {q \in (0 .. w - 1) \X (0 .. w - 1) \X (0 .. h - 1) \X (0 .. h - 1) :
                  q[1] <= q[2] /\ q[3] <= q[4]}}

\* colourings of the foreground: one colour, or two colours in a checkerboard
FgColourings ==
    { [p \in Pixels(GridW, GridH) |-> <<200, 3, 255>>],
      [p \in Pixels(GridW, GridH) |->
          IF (p[1] + p[2]) % 2 = 0 THEN <<3, 200, 0>> ELSE <<255, 0, 200>>] }

\* single pixels of the grid, as sets; {} is no pixel
Dots(w, h) == {{p} : p \in Pixels(w, h)}

\* A foreground one pixel wider and higher than the grid, with two fully
\* transparent regions: its whole top row, a one-pixel-high line, and a 2x2
\* block in its bottom left corner.
FgLineAndBlock ==
    Image(GridW + 1, GridH + 1, 4, [p \in Pixels(GridW + 1, GridH + 1) |-> <<200, 3, 255>>],
          [p \in Pixels(GridW + 1, GridH + 1) |->
              IF p[2] = 0 \/ (p[1] <= 1 /\ p[2] >= GridH - 1) THEN 0 ELSE 255])

\* Foregrounds of GridW x GridH with an alpha channel whose non-opaque
\* pixels are one rectangle of alpha a, joined or not by one fully
\* transparent pixel; and the foregrounds with no non-opaque pixel, with and
\* without an alpha channel; and FgLineAndBlock.
Foregrounds ==
    { Image(GridW, GridH, 4, rgb,
            [p \in Pixels(GridW, GridH) |->
                IF p \in r2 THEN 0 ELSE IF p \in r1 THEN a ELSE 255]) :
        rgb \in FgColourings, a \in HoleAlphas,
        r1 \in Rects(GridW, GridH), r2 \in Dots(GridW, GridH) \cup {{}} }
      \cup { Image(GridW, GridH, ch, rgb, [p \in Pixels(GridW, GridH) |-> 255]) :
                rgb \in FgColourings, ch \in {3, 4} }
      \cup { FgLineAndBlock }

\* ads of one colour: wide, tall, with and without a fourth channel
Ads ==
    { Solid(4, 1, 3, <<0, 0, 255>>, 255), Solid(1, 3, 4, <<3, 200, 3>>, 128) }

NoBox == [x |-> 0, y |-> 0, w |-> 0, h |-> 0]
NoResult == [p \in {} |-> Black]

InitPix ==
    /\ pc = "pix"
    /\ token = None
    /\ file_content = Garbage
    /\ items = <<>>
    /\ idx = 0
    /\ results = <<>>
    /\ temp_filepath = NoFile
    /\ public_url = NoUrl
    /\ disk = {}
    /\ output = <<>>
    /\ events = <<>>
    /\ uuids = 0
    /\ fit = IdleFit
    /\ \E fg \in Foregrounds, ad \in Ads :
           pix = [phase |-> "in", overlay_img |-> fg, ad_img |-> ad,
                  ret |-> "unset", box |-> NoBox, canvas |-> NoResult,
                  result |-> NoResult]
    /\ px = IdlePx
    /\ run = 1
    /\ earlier = NoEarlier
    /\ IdleModify

\* process_single_image lines 46-94 on decoded images: the box of a largest
\* contour, the canvas and the blended result, or the return of False
Pipeline ==
    /\ pix.phase = "in"
    /\ LET overlay_img == pix.overlay_img
           ad_img == pix.ad_img
           mask == TransparentMask(overlay_img)
       IN  IF overlay_img.ch # 4 \/ mask = {}
           THEN pix' = [pix EXCEPT !.phase = "out", !.ret = "False"]
           ELSE \E c \in LargestContours(mask, overlay_img.w, overlay_img.h) :
                   LET box == BoundingRect(c)
                       fitted == Fit(ad_img.w, ad_img.h, box.w, box.h)
                       canvas == Canvas(overlay_img, ad_img, box)
                   IN  pix' = [pix EXCEPT
                                 !.phase = "out",
                                 !.ret = IF fitted.ok THEN "True" ELSE "raise",
                                 !.box = box,
                                 !.canvas = canvas,
                                 !.result = IF fitted.ok
                                            THEN Composite(overlay_img, canvas)
                                            ELSE NoResult]
    /\ UNCHANGED <<mainVars, fit, px, run, earlier, mtVars>>

NextPix == Pipeline

SpecPix == InitPix /\ [][NextPix]_vars

-----------------------------------------------------------------------------
(* SpecBlend: one channel of lines 85-91 at alpha 0 and alpha 255 *)

AlphaEnds == {0, ChannelMax}

InitBlend ==
    /\ pc = "blend"
    /\ token = None
    /\ file_content = Garbage
    /\ items = <<>>
    /\ idx = 0
    /\ results = <<>>
    /\ temp_filepath = NoFile
    /\ public_url = NoUrl
    /\ disk = {}
    /\ output = <<>>
    /\ events = <<>>
    /\ uuids = 0
    /\ fit = IdleFit
    /\ pix = IdlePix
    /\ \E f \in 0 .. ChannelMax, g \in 0 .. ChannelMax, a \in AlphaEnds :
           px = [phase |-> "in", f |-> f, a |-> a, g |-> g, out |-> 0]
    /\ run = 1
    /\ earlier = NoEarlier
    /\ IdleModify

\* lines 85-91 on one channel of one pixel: px.f of the foreground with alpha
\* px.a over px.g of the canvas
BlendChannel ==
    /\ px.phase = "in"
    /\ px' = [px EXCEPT !.phase = "out", !.out = Blend(px.f, px.a, px.g)]
    /\ UNCHANGED <<mainVars, fit, pix, run, earlier, mtVars>>

NextBlend == BlendChannel

SpecBlend == InitBlend /\ [][NextBlend]_vars

-----------------------------------------------------------------------------
(* modify_text_image.py *)

\* stop_after_attempt(5) (line 22)
StopAfterAttempt == 5

\* the most parts a response's first candidate carries
MaxParts == 3

ApiKeys == {None, "", "key"}

\* How get_image (lines 15-19) ends: with the opened image, or with the
\* exception of requests.get, of raise_for_status or of Image.open.
ImageFetches == {"ok", "unreachable", "http_error", "not_image"}

\* A part of a candidate's content: "image" has inline_data, "text" has none
\* (line 61).
PartKinds == {"text", "image"}

PartLists == UNION {[1 .. n -> PartKinds] : n \in 0 .. MaxParts}

\* A candidate either has a content with a list of parts or, when the
\* service withheld the content, has content None.
Candidates ==
    {[has_content |-> FALSE, parts |-> <<>>]}
        \cup {[has_content |-> TRUE, parts |-> ps] : ps \in PartLists}

\* What generate_content returns: main reads candidates[0] only (lines 59-60);
\* <<>> stands for a response with no candidate.
Responses ==
    {[tag |-> "response", candidates |-> cs] :
        cs \in {<<>>} \cup {<<c>> : c \in Candidates}}

\* the outcome of one generate_content call (lines 30-37)
Failed == [ok |-> FALSE, response |-> NoResponse]
Returned(r) == [ok |-> TRUE, response |-> r]

Error(kind, attempt) == [kind |-> kind, attempt |-> attempt]

StopRetryingLate(n) == n > StopAfterAttempt

\* the retry decorator (lines 21-26) after the n-th attempt raised: stop and,
\* with reraise=True, raise that attempt's exception; or wait and call again
StopRetrying(n) == n >= StopAfterAttempt

\* index of the first part with inline data, 0 if there is none (lines 60-69)
FirstImage(parts) ==
    IF \E i \in 1 .. Len(parts) : parts[i] = "image"
    THEN CHOOSE i \in 1 .. Len(parts) :
            /\ parts[i] = "image"
            /\ \A j \in 1 .. i - 1 : parts[j] # "image"
    ELSE 0

InitModify ==
    /\ pc = "modify"
    /\ token = None
    /\ file_content = Garbage
    /\ items = <<>>
    /\ idx = 0
    /\ results = <<>>
    /\ temp_filepath = NoFile
    /\ public_url = NoUrl
    /\ disk = {}
    /\ output = <<>>
    /\ events = <<>>
    /\ uuids = 0
    /\ fit = IdleFit
    /\ pix = IdlePix
    /\ px = IdlePx
    /\ run = 1
    /\ earlier = NoEarlier
    /\ mpc = "start"
    /\ api_key \in ApiKeys
    /\ downloads = 0
    /\ calls = <<>>
    /\ response = NoResponse
    /\ raised = NoError
    /\ writes = <<>>

\* lines 45-48
CheckKey ==
    /\ mpc = "start"
    /\ mpc' = IF Falsy(api_key) THEN "exit1" ELSE "download"
    /\ UNCHANGED <<mainVars, fit, pix, px, run, earlier, api_key, downloads,
                   calls, response, raised, writes>>

\* line 51 with get_image (lines 15-19), and lines 75-77 when it raises
GetImage ==
    /\ mpc = "download"
    /\ downloads' = downloads + 1
    /\ \E fetched \in ImageFetches :
          IF fetched = "ok"
          THEN /\ mpc' = "generate"
               /\ UNCHANGED raised
          ELSE /\ raised' = Error(fetched, 0)
               /\ mpc' = "exit1"
    /\ UNCHANGED <<mainVars, fit, pix, px, run, earlier, api_key, calls,
                   response, writes>>

\* One attempt of generate_modification (line 55, lines 21-37): the call
\* returns a response, which goes to main, or raises; the decorator then
\* calls again or re-raises to main's except clause (lines 75-77).
Attempt ==
    /\ mpc = "generate"
    /\ \/ \E r \in Responses :
            /\ calls' = Append(calls, Returned(r))
            /\ response' = r
            /\ mpc' = "extract"
            /\ UNCHANGED raised
       \/ /\ calls' = Append(calls, Failed)
          /\ IF StopRetrying(Len(calls) + 1)
             THEN /\ raised' = Error("api", Len(calls) + 1)
                  /\ mpc' = "exit1"
             ELSE UNCHANGED <<raised, mpc>>
          /\ UNCHANGED response
    /\ UNCHANGED <<mainVars, fit, pix, px, run, earlier, api_key, downloads,
                   writes>>

\* Lines 57-73, and lines 75-77 when candidates[0].content is None and
\* .parts raises AttributeError: the first part with inline data is written
\* to args.output and the loop is left.
Extract ==
    /\ mpc = "extract"
    /\ LET cs == response.candidates
       IN  IF cs = <<>>
           THEN /\ mpc' = "done"
                /\ UNCHANGED <<raised, writes>>
           ELSE IF ~cs[1].has_content
           THEN /\ raised' = Error("attribute", 0)
                /\ mpc' = "exit1"
                /\ UNCHANGED writes
           ELSE /\ writes' = IF FirstImage(cs[1].parts) > 0
                             THEN Append(writes, FirstImage(cs[1].parts))
                             ELSE writes
                /\ mpc' = "done"
                /\ UNCHANGED raised
    /\ UNCHANGED <<mainVars, fit, pix, px, run, earlier, api_key, downloads,
                   calls, response>>

NextModify ==
    \/ CheckKey
    \/ GetImage
    \/ Attempt
    \/ Extract

SpecModify == InitModify /\ [][NextModify]_vars

\* exit(1) at lines 48 and 77; falling off the end of main is status 0
ModifyEnded == mpc \in {"done", "exit1"}
ModifyExitStatus == IF mpc = "done" THEN 0 ELSE 1

-----------------------------------------------------------------------------
(* What a run was given and what it did, read off file_content and events *)

\* the nesting of a JSON value, outermost first, and the list at its core
RECURSIVE Shape(_)
Shape(v) ==
    CASE v[1] = "list" -> <<"list">>
      [] v[1] = "dict" -> <<"dict">> \o Shape(v[2])
      [] v[1] = "str"  -> IF v[2][1] = "text" THEN <<"str">> \o Shape(v[2][2])
                          ELSE <<"str", "garbage">>
      [] OTHER         -> <<v[1]>>

RECURSIVE Payload(_)
Payload(v) ==
    CASE v[1] = "list" -> v[2]
      [] v[1] = "dict" -> Payload(v[2])
      [] v[1] = "str"  -> IF v[2][1] = "text" THEN Payload(v[2][2]) ELSE <<>>
      [] OTHER         -> <<>>

FileShape == IF file_content[1] = "text" THEN Shape(file_content[2]) ELSE <<"garbage">>
InputJobs == IF file_content[1] = "text" THEN Payload(file_content[2]) ELSE <<>>

\* the state ParseInput leaves
JustParsed ==
    /\ pc \in {"loop", "exit1"}
    /\ Len(events) = 1
    /\ events[1][1] = "read_input"

Ev(op, i) == {n \in 1 .. Len(events) : events[n][1] = op /\ events[n][2] = i}
Skipped(i) == Ev("skip", i) # {}
Fetched(i) == Ev("get", i) # {}
Wrote(i) == Ev("imwrite", i) # {}
Posted(i) == Ev("post", i) # {}
Uploaded(i) == \E n \in Ev("post", i) : events[n][3][2] \in {"200", "201"}
UrlOf(i) == PublicUrl(events[CHOOSE n \in Ev("post", i) : TRUE][3][1])

\* job i passed validation, processing and upload
Succeeded(i) == ~Skipped(i) /\ Wrote(i) /\ Uploaded(i)

\* the positions of the jobs that succeeded, in input order, from i on
RECURSIVE SucceededFrom(_)
SucceededFrom(i) ==
    IF i > Len(InputJobs) THEN <<>>
    ELSE (IF Succeeded(i) THEN <<i>> ELSE <<>>) \o SucceededFrom(i + 1)

\* the loop is past the validation, or past the processing, of job i
Validated(i) ==
    i < idx \/ (i = idx /\ pc \in {"process", "upload", "record", "cleanup", "crash"})
Processed(i) ==
    i < idx \/ (i = idx /\ pc \in {"upload", "record", "cleanup", "crash"})

AddedKeys == {"final_image", "meta_ad_creative_id"}

-----------------------------------------------------------------------------
(* Claims *)

\* C1: no per-job error (a fetch that fails at the network level or by
\* status, a decode failure, an image without the expected channel layout,
\* no alpha channel, no transparent region, an upload failure) leaves the
\* batch loop of main: the run is never ended by an exception.
C1_JobErrorsStayInLoop == pc # "crash"

\* C2: after a completed run the written result sequence is exactly the
\* jobs that passed validation, processing and upload, in input order: the
\* k-th written record is the k-th such job, carrying that job's fields.
C2_ResultIsSuccessfulSubsequence ==
    pc = "done" =>
        /\ Len(output) = 1
        /\ LET succ == SucceededFrom(1)
               written == output[1]
           IN  /\ Len(written) = Len(succ)
               /\ \A k \in 1 .. Len(succ) :
                      /\ written[k] = items[succ[k]]
                      /\ \A key \in DOMAIN InputJobs[succ[k]] \ AddedKeys :
                             /\ key \in DOMAIN written[k]
                             /\ written[k][key] = InputJobs[succ[k]][key]

\* a completed run of three jobs whose second job has a foreground without
\* alpha channel wrote the first and the third
C2_Witness ==
    /\ pc = "done"
    /\ Len(InputJobs) = 3
    /\ Get(InputJobs[2], "fg_image") = "fg_rgb"
    /\ Fetched(2) /\ ~Wrote(2)
    /\ SucceededFrom(1) = <<1, 3>>
    /\ Len(output[1]) = 2

\* C3: when the run has ended, by completion or otherwise, no transient
\* artifact it wrote still exists.
C3_NoArtifactLeftAtEnd == Ended => disk = {}

C5_NoTokenNoWork ==
    Falsy(token) =>
        /\ pc \in {"start", "exit1"}
        /\ events = <<>>
        /\ items = <<>> /\ results = <<>>
        /\ uuids = 0
        /\ disk = {}
        /\ output = <<>>

C5_Witness ==
    /\ token = ""
    /\ pc = "exit1"
    /\ FileShape = <<"list">>
    /\ Len(InputJobs) = 2

\* the nestings C6 names: the list itself, under the wrapper key, as a
\* string, a string under the wrapper key, the wrapper inside a string
ClaimedShapes ==
    { <<"list">>, <<"dict", "list">>, <<"str", "list">>,
      <<"dict", "str", "list">>, <<"str", "dict", "list">> }

\* the nestings main unwraps
UnwrappedShapes ==
    { <<"list">>, <<"dict", "list">>, <<"str", "list">>, <<"dict", "str", "list">> }

\* C6 as claimed: an input of any of the five nestings of S is unwrapped to
\* S, and any other input fails as malformed.
C6_UnwrapsEveryCombination ==
    JustParsed =>
        IF FileShape \in ClaimedShapes
        THEN pc = "loop" /\ items = InputJobs
        ELSE pc = "exit1"

\* C6, amended: S itself, S under the wrapper key, S encoded as a string and
\* the wrapper key holding S encoded as a string are unwrapped to S; every
\* other input, a string that holds the wrapper object among them, fails as
\* malformed with exit status 1; the string "[]" yields one written, empty
\* result set.
C6_UnwrapsWrapperThenString ==
    /\ JustParsed =>
           IF FileShape \in UnwrappedShapes
           THEN pc = "loop" /\ idx = 1 /\ items = InputJobs
           ELSE pc = "exit1"
    /\ (FileShape \in UnwrappedShapes /\ ~Falsy(token)) => pc # "exit1"
    /\ (file_content = AsString(<<>>) /\ Ended /\ ~Falsy(token))
           => pc = "done" /\ output = << <<>> >>

\* a string under the wrapper key was unwrapped to its one job
C6_Witness ==
    /\ JustParsed
    /\ FileShape = <<"dict", "str", "list">>
    /\ pc = "loop"
    /\ Len(items) = 1
    /\ items = InputJobs

\* C7: the exit status is non-zero exactly if the credential is missing or
\* the input does not unwrap to a list; every other run writes the result
\* set exactly once and exits zero.
C7_ExitStatus ==
    Ended =>
        LET fatal == Falsy(token) \/ ~Unwrap(file_content).ok
        IN  /\ ExitStatus # 0 <=> fatal
            /\ ~fatal => Len(output) = 1

\* C8: the k-th record of the result set carries the public URL that the
\* upload of its own job returned, the job's meta_ad_creative_id if it had
\* one and None if not, and every other field of the input job unchanged,
\* and no further field.
C8_RecordFields ==
    LET succ == SucceededFrom(1)
    IN  \A k \in 1 .. Len(results) :
            /\ k <= Len(succ)
            /\ LET job == InputJobs[succ[k]]
                   rec == results[k]
               IN  /\ DOMAIN rec = DOMAIN job \cup AddedKeys
                   /\ rec.final_image = UrlOf(succ[k])
                   /\ rec.meta_ad_creative_id =
                          IF Has(job, "meta_ad_creative_id")
                          THEN job.meta_ad_creative_id ELSE None
                   /\ \A key \in DOMAIN job \ AddedKeys : rec[key] = job[key]

\* a result set with a record whose job had a creative id and a record whose
\* job had none, each with the URL of its own upload
C8_Witness ==
    /\ Len(results) = 2
    /\ Has(InputJobs[1], "meta_ad_creative_id")
    /\ ~Has(InputJobs[2], "meta_ad_creative_id")
    /\ results[1].meta_ad_creative_id = "c1"
    /\ results[2].meta_ad_creative_id = None
    /\ results[1].final_image # results[2].final_image

\* C9 as claimed: a job is skipped at validation exactly if one of its two
\* URL fields is missing.
C9_SkippedIffFieldMissing ==
    pc \notin {"start", "parse", "exit1"} =>
        \A i \in 1 .. Len(InputJobs) :
            Validated(i) => (Skipped(i) <=> MissingKey(InputJobs[i]))

\* a URL field that is missing, null or the empty string
MissingOrEmpty(job, key) == ~Has(job, key) \/ job[key] \in {None, ""}

\* C9, amended: a job is skipped at validation exactly if its fg_image or
\* its ad_image field (the spec's foreground_url and ad_url) is missing, null
\* or empty; a skipped job causes no fetch, no artifact and no upload; a
\* job with both fields non-empty proceeds to fetching.
C9_SkippedIffFieldMissingOrEmpty ==
    pc \notin {"start", "parse", "exit1"} =>
        \A i \in 1 .. Len(InputJobs) :
            /\ Validated(i) =>
                   (Skipped(i) <=> (MissingOrEmpty(InputJobs[i], "fg_image")
                                      \/ MissingOrEmpty(InputJobs[i], "ad_image")))
            /\ Skipped(i) => ~Fetched(i) /\ ~Wrote(i) /\ ~Posted(i)
            /\ (Processed(i) /\ ~Skipped(i)) => Fetched(i)

\* a run that skipped a job whose ad_image is the empty string and went on to
\* fetch for the next job
C9_Witness ==
    /\ Len(InputJobs) = 2
    /\ Has(InputJobs[1], "ad_image") /\ Get(InputJobs[1], "ad_image") = ""
    /\ Has(InputJobs[1], "fg_image")
    /\ Skipped(1) /\ ~Fetched(1)
    /\ ~Skipped(2) /\ Fetched(2)

\* C10: for every ad size and every box with positive width and height the
\* aspect-fill step raises in neither resize, its scaled and its cropped
\* image are not empty, and its result has exactly the box's size.
C10_FitExactSize ==
    fit.phase = "out" =>
        /\ fit.out.resized_ok /\ fit.out.ok
        /\ fit.out.new_w >= 1 /\ fit.out.new_h >= 1
        /\ fit.out.crop_w >= 1 /\ fit.out.crop_h >= 1
        /\ fit.out.w = fit.w /\ fit.out.h = fit.h

\* a one-pixel-wide ad of the greatest height fitted into a one-pixel-high
\* box of the greatest width
C10_Witness ==
    /\ fit.phase = "out"
    /\ fit.adW = 1 /\ fit.adH = MaxDim
    /\ fit.w = MaxDim /\ fit.h = 1
    /\ fit.out.ok
    /\ fit.out.new_h = MaxDim * MaxDim
    /\ fit.out.w = MaxDim /\ fit.out.h = 1

-----------------------------------------------------------------------------
(* C11 *)

\* C11: where the foreground's alpha is 255 the blended channel is the
\* foreground's value, and where it is 0 the blended channel is the canvas's
\* value, for every pair of 8-bit values.
C11_BlendEndpoints ==
    px.phase = "out" =>
        /\ px.a = ChannelMax => px.out = px.f
        /\ px.a = 0 => px.out = px.g

\* a transparent pixel of a white foreground over a dark canvas value shows
\* the canvas value
C11_Witness ==
    /\ px.phase = "out"
    /\ px.a = 0
    /\ px.f = ChannelMax
    /\ px.g = 7
    /\ px.out = 7

-----------------------------------------------------------------------------
(* C12 *)

\* the pixels of the rectangle with corner <<x, y>>, w wide and h high
RectPixels(x, y, w, h) == (x .. x + w - 1) \X (y .. y + h - 1)

\* C12: when the pixels of alpha < 255 of a foreground with an alpha channel
\* are exactly the rectangle (x, y, w, h), the located box is (x, y, w, h);
\* one-pixel-wide and one-pixel-high rectangles and rectangles on the image
\* border are among them.
C12_RectangleLocated ==
    (pix.phase = "out" /\ pix.overlay_img.ch = 4) =>
        \A x \in 0 .. pix.overlay_img.w - 1, y \in 0 .. pix.overlay_img.h - 1 :
            \A w \in 1 .. pix.overlay_img.w - x, h \in 1 .. pix.overlay_img.h - y :
                TransparentMask(pix.overlay_img) = RectPixels(x, y, w, h)
                    => pix.box = [x |-> x, y |-> y, w |-> w, h |-> h]

\* a one-pixel-wide column of alpha 128 on the right border was located
C12_Witness ==
    /\ pix.phase = "out"
    /\ pix.overlay_img.ch = 4
    /\ TransparentMask(pix.overlay_img) = RectPixels(GridW - 1, 0, 1, GridH)
    /\ pix.overlay_img.alpha[<<GridW - 1, 0>>] = 128
    /\ pix.box = [x |-> GridW - 1, y |-> 0, w |-> 1, h |-> GridH]

-----------------------------------------------------------------------------
(* C13 *)

\* a result record with the unique name taken out of its URL
SansName(rec) ==
    [k \in DOMAIN rec |->
        IF k = "final_image" THEN <<rec[k][1], rec[k][2][1]>> ELSE rec[k]]

SansNames(written) == [k \in 1 .. Len(written) |-> SansName(written[k])]

\* C13: a second run of main on the same input, with the fetches and the
\* upload stub answering as in the first run, ends as the first run ended and
\* writes a result set equal to the first run's (same jobs, same order, same
\* fields) once the unique names are taken out of the URLs.
C13_SecondRunSameResults ==
    (run = 2 /\ Ended) =>
        /\ pc = earlier.pc
        /\ Len(output) = 2 * Len(earlier.output)
        /\ pc = "done" =>
              /\ Len(output) = 2
              /\ SansNames(output[2]) = SansNames(output[1])

\* both runs are over: each recorded one job of several, under different
\* unique names
C13_Witness ==
    /\ run = 2
    /\ pc = "done"
    /\ Len(output) = 2
    /\ Len(InputJobs) > 1
    /\ Len(output[1]) = 1
    /\ Len(output[2]) = 1
    /\ output[1][1].final_image # output[2][1].final_image

-----------------------------------------------------------------------------
(* C14 *)

AllFailed == \A n \in 1 .. Len(calls) : ~calls[n].ok

\* C14: generate_content is called at most 5 times; no call follows a call
\* that returned, and what that call returned is what main gets; while fewer
\* than 5 calls were made and all raised, the decorator goes on; when 5 calls
\* raised, the exception of the fifth reaches main, which exits with status 1
\* and has written no output file.
C14_RetryPolicy ==
    /\ Len(calls) <= StopAfterAttempt
    /\ \A n \in 1 .. Len(calls) - 1 : ~calls[n].ok
    /\ (calls # <<>> /\ calls[Len(calls)].ok) =>
          /\ response = calls[Len(calls)].response
          /\ mpc \in {"extract", "done", "exit1"}
    /\ (calls # <<>> /\ AllFailed /\ Len(calls) < StopAfterAttempt) =>
          /\ mpc = "generate"
          /\ raised = NoError
    /\ (AllFailed /\ Len(calls) = StopAfterAttempt) =>
          /\ raised = Error("api", StopAfterAttempt)
          /\ ModifyEnded
          /\ ModifyExitStatus # 0
          /\ writes = <<>>

\* five calls raised and the fifth's exception ended main
C14_Witness ==
    /\ Len(calls) = StopAfterAttempt
    /\ AllFailed
    /\ raised = Error("api", StopAfterAttempt)
    /\ mpc = "exit1"
    /\ writes = <<>>

-----------------------------------------------------------------------------
(* C15 *)

\* the components of the mask all have different numbers of pixels
DistinctPixelAreas(comps) ==
    \A c \in comps, d \in comps : c # d => Cardinality(c) # Cardinality(d)

\* C15: when the non-opaque pixels form several 8-connected components with
\* distinct pixel counts, the located box is the bounding box of the
\* component with the most pixels, and it lies within the image with
\* positive width and height.
C15_LargestByPixelArea ==
    (pix.phase = "out" /\ pix.overlay_img.ch = 4) =>
        LET comps == Components(TransparentMask(pix.overlay_img))
        IN  (Cardinality(comps) > 1 /\ DistinctPixelAreas(comps)) =>
                /\ \E c \in comps :
                      /\ \A d \in comps : Cardinality(d) <= Cardinality(c)
                      /\ pix.box = BoundingRect(c)
                /\ pix.box.x >= 0 /\ pix.box.y >= 0
                /\ pix.box.w > 0 /\ pix.box.h > 0
                /\ pix.box.x + pix.box.w <= pix.overlay_img.w
                /\ pix.box.y + pix.box.h <= pix.overlay_img.h

-----------------------------------------------------------------------------
(* C16 *)

\* the foreground of job i decodes to an image that has no alpha channel, or
\* has one with no pixel of alpha < 255
NothingTransparent(i) ==
    LET fgd == DownloadImage(Get(InputJobs[i], "fg_image"))
    IN  /\ fgd.got = "img"
        /\ fgd.img.ch # 4 \/ TransparentMask(fgd.img) = {}

\* process_single_image was called for job i and returned False: the loop
\* went on without an artifact
ReturnedFalse(i) ==
    /\ ~Skipped(i)
    /\ ~Wrote(i)
    /\ i < idx \/ (i = idx /\ pc = "loop")

\* C16: a call of process_single_image on a foreground without alpha channel
\* or without a pixel of alpha < 255 returns False; and after every call that
\* did not succeed no artifact was written, no upload was attempted and no
\* record was made of the job (main's record is the job's own dict with the
\* added keys, and results holds only jobs whose artifact was written).
C16_PreconditionFailuresReported ==
    \A i \in 1 .. Len(items) :
        (Processed(i) /\ ~Skipped(i)) =>
            /\ NothingTransparent(i) => ReturnedFalse(i)
            /\ ~Wrote(i) =>
                  /\ ~Posted(i)
                  /\ items[i] = InputJobs[i]
                  /\ Len(results) <= Cardinality({j \in 1 .. Len(items) : Wrote(j)})

-----------------------------------------------------------------------------
(* C17 *)

\* C17: in the aspect-fill step the scaled image is at least as wide as the
\* box (branch of the wider ad) or at least as high (other branch), the crop
\* offset is not negative and offset + target does not exceed the scaled
\* size, and the cropped image has exactly the box's size.
C17_CropWindowInside ==
    fit.phase = "out" =>
        /\ fit.out.wider =>
              /\ fit.out.new_w >= fit.w
              /\ fit.out.crop >= 0
              /\ fit.out.crop + fit.w <= fit.out.new_w
        /\ ~fit.out.wider =>
              /\ fit.out.new_h >= fit.h
              /\ fit.out.crop >= 0
              /\ fit.out.crop + fit.h <= fit.out.new_h
        /\ fit.out.crop_w = fit.w
        /\ fit.out.crop_h = fit.h

-----------------------------------------------------------------------------
(* C18 *)

\* position in events of the one event op of job i
At(op, i) == CHOOSE n \in Ev(op, i) : TRUE

\* the positions of job i's fetches, in order
Gets(i) == Ev("get", i)

\* C18: within a job the ad is fetched only after the foreground's fetch gave
\* an image, the artifact is written only after both fetches gave images and
\* the foreground has an alpha channel with a non-opaque pixel, the upload is
\* attempted only after the artifact was written, and the job is recorded only
\* after its upload returned a URL; every step of a job comes before every
\* step of the next job; and at no moment is there more than one artifact.
C18_StepOrder ==
    /\ \A i \in 1 .. Len(items) :
          LET fg_url == Get(InputJobs[i], "fg_image")
              ad_url == Get(InputJobs[i], "ad_image")
              fgd == DownloadImage(fg_url)
              add == DownloadImage(ad_url)
          IN  /\ Cardinality(Gets(i)) <= 2
              /\ Gets(i) # {} => events[SetMin(Gets(i))][3] = fg_url
              /\ Cardinality(Gets(i)) = 2 =>
                    /\ events[SetMax(Gets(i))][3] = ad_url
                    /\ fgd.got = "img"
              /\ Wrote(i) =>
                    /\ Cardinality(Ev("imwrite", i)) = 1
                    /\ Cardinality(Gets(i)) = 2
                    /\ SetMax(Gets(i)) < At("imwrite", i)
                    /\ fgd.got = "img" /\ add.got = "img"
                    /\ fgd.img.ch = 4
                    /\ TransparentMask(fgd.img) # {}
              /\ Posted(i) =>
                    /\ Cardinality(Ev("post", i)) = 1
                    /\ Wrote(i)
                    /\ At("imwrite", i) < At("post", i)
              /\ items[i] # InputJobs[i] =>
                    /\ Uploaded(i)
                    /\ items[i].final_image = UrlOf(i)
                    /\ \E k \in 1 .. Len(results) : results[k] = items[i]
    /\ Len(results) <= Cardinality({i \in 1 .. Len(items) : Uploaded(i)})
    /\ \A n \in 1 .. Len(events) - 1 : events[n][2] <= events[n + 1][2]
    /\ \A n \in 1 .. Len(events) : events[n][2] <= idx
    /\ Cardinality(disk) <= 1

\* the first job was fetched, written, uploaded, recorded and its artifact
\* removed; the second job's artifact is the only one on disk
C18_Witness ==
    /\ pc = "upload"
    /\ idx = 2
    /\ Uploaded(1)
    /\ Len(results) = 1
    /\ Ev("remove", 1) # {}
    /\ At("remove", 1) < SetMin(Gets(2))
    /\ Wrote(2)
    /\ disk = {temp_filepath}

-----------------------------------------------------------------------------
(* C19 *)

\* the response main got carries no part with inline image data
NoInlineImage ==
    \/ response.candidates = <<>>
    \/ ~response.candidates[1].has_content
    \/ FirstImage(response.candidates[1].parts) = 0

\* C19: the input image is requested once and never again; if that fails,
\* generate_content is never called and the process exits non-zero; after a
\* successful generation the output file is written at most once, with the
\* first part that has inline data; and when the response has no inline
\* image data no output file is written and the process exits with status 0.
C19_DownloadOnceWriteOnce ==
    /\ downloads <= 1
    /\ mpc \in {"generate", "extract", "done"} => downloads = 1
    /\ raised.kind \in ImageFetches =>
          /\ downloads = 1
          /\ calls = <<>>
          /\ ModifyEnded /\ ModifyExitStatus # 0
    /\ Len(writes) <= 1
    /\ writes # <<>> =>
          /\ response # NoResponse
          /\ writes[1] = FirstImage(response.candidates[1].parts)
    /\ (ModifyEnded /\ response # NoResponse /\ NoInlineImage) =>
          /\ writes = <<>>
          /\ ModifyExitStatus = 0

=============================================================================
